---- MODULE Spec2Model ----
(***************************************************************************)
(* astdiff: structural comparison of two abstract syntax trees             *)
(* (compare_ast / assert_equal) and the per-file loop of the astdiff       *)
(* command.  The recursion of compare_ast is unfolded into an explicit     *)
(* call stack; one action is one statement group of the function body.     *)
(***************************************************************************)
EXTENDS Integers, Sequences, FiniteSets, TLC

\* ------------------------------------------------------------------ bounds
MaxLine == 2      \* line numbers carried by nodes are 1..MaxLine
MaxLen == 3       \* longest list of scalars among the inputs
MaxPaths == 2     \* longest list of changed paths handed to the command

\* ------------------------------------------------------------------ trees
\* A tree value is a record of one shape for the three variants:
\*   k     the variant: "Node" (ast.AST), "List" (list), "Scalar" (anything else)
\*   tag   type(x).__name__
\*   line  the lineno attribute of a Node, NoLine when the attribute is missing
\*   names the names ast.iter_fields yields (_fields that are set), in order
\*   kids  the field values of a Node, or the elements of a List
\*   v     str(x) of a Scalar
NoLine == -1
Unset == -1

Scalar(ty, val) ==
  [k |-> "Scalar", tag |-> ty, line |-> NoLine, names |-> <<>>, kids |-> <<>>, v |-> val]
List(elts) ==
  [k |-> "List", tag |-> "list", line |-> NoLine, names |-> <<>>, kids |-> elts, v |-> ""]
Node(tag, ln, ns, vals) ==
  [k |-> "Node", tag |-> tag, line |-> ln, names |-> ns, kids |-> vals, v |-> ""]

\* fillvalue="" of both zip_longest calls: as a list element it is the str "",
\* as a field it is the str "" seen as a sequence of zero characters.
FillStr == Scalar("str", "")
EmptyStr == <<>>

Max(a, b) == IF a > b THEN a ELSE b

\* ------------------------------------------------------------------ inputs
LineOpt == {NoLine} \cup (1..MaxLine)
StrScalars == {Scalar("str", ""), Scalar("str", "a")}
Scalars == StrScalars \cup {Scalar("NoneType", "None")}
\* Node kind A has the fields (f, g) and carries a line number or not; node
\* kind B has the field (f) and never a line number.  A constructed node may
\* lack any of its fields.
Leaves ==
  Scalars \cup {List(<<>>)}
    \cup {Node("A", ln, <<>>, <<>>) : ln \in LineOpt}
    \cup {Node("B", NoLine, <<>>, <<>>)}
\* what the two-level and the two-field inputs are built over
Inner == StrScalars \cup {Node("A", ln, <<>>, <<>>) : ln \in LineOpt}
Unary(X) ==
  {List(<<x>>) : x \in X}
    \cup {Node("A", ln, <<n>>, <<x>>) : ln \in LineOpt, n \in {"f", "g"}, x \in X}
    \cup {Node("B", NoLine, <<"f">>, <<x>>) : x \in X}
Binary(X) ==
  {List(<<x, y>>) : x \in X, y \in X}
    \cup {Node("A", ln, <<"f", "g">>, <<x, y>>) : ln \in LineOpt, x \in X, y \in X}
ScalarLists == {List(s) : s \in UNION {[1..n -> StrScalars] : n \in 0..MaxLen}}
ShortLists == {List(<<>>)} \cup {List(<<s>>) : s \in StrScalars}
NestedLists == {List(<<x, y>>) : x \in ShortLists, y \in ShortLists}
Trees ==
  Leaves \cup Unary(Leaves) \cup Unary(Unary(Inner)) \cup Binary(Inner)
    \cup ScalarLists \cup NestedLists

VARIABLES
  left, right,       \* the two trees handed to the top-level compare_ast call
  stack,             \* the active compare_ast calls, outermost first
  line_counter,      \* the dict threaded through the recursion
  status,            \* "running", "ok" (returned None) or the exception raised
  report             \* the arguments of the assertion message, once raised

cmpvars == <<left, right, stack, line_counter, status, report>>

VARIABLES
  worktree,          \* commit2 is None: the second side is the working tree
  paths,             \* the changed paths, each with what its retrieval gives
  pos,               \* number of paths the for loop has consumed
  ok, fails, errors, \* the three counters
  uncaught,          \* the exception that left the for loop, "" when none did
  exit               \* the exit status of the process, NoExit while it runs

batchvars == <<worktree, paths, pos, ok, fails, errors, uncaught, exit>>
vars == <<left, right, stack, line_counter, status, report,
          worktree, paths, pos, ok, fails, errors, uncaught, exit>>

NoReport == [leftLine |-> -1, left |-> "", rightLine |-> -1, right |-> ""]
NoExit == -1

\* ------------------------------------------------------------- compare_ast
\* The machine a comparison runs on, as a value.
M == [stack |-> stack, line_counter |-> line_counter, status |-> status,
      report |-> report]

Frame(l, r) == [l |-> l, r |-> r, pc |-> "entry", i |-> 0]
Start(l, r) ==
  [stack |-> <<Frame(l, r)>>,
   line_counter |-> [left |-> Unset, right |-> Unset],
   status |-> "running",
   report |-> NoReport]

Top(m) == m.stack[Len(m.stack)]
Running(m) == m.status = "running" /\ m.stack # <<>>
AtEntry(m) == Running(m) /\ Top(m).pc = "entry"
InLoop(m) == Running(m) /\ Top(m).pc = "loop"

TypeOf(x) == x.tag
IsAST(x) == x.k = "Node"
IsList(x) == x.k = "List"

Get(slot, default) == IF slot = Unset THEN default ELSE slot
\* faulty variant: getattr(node, "lineno", 1), the slot's own value not kept
GetAttrLinenoOrOne(n, default) == IF n.line # NoLine THEN n.line ELSE 1
GetAttrLineno(n, default) == IF n.line # NoLine THEN n.line ELSE default

\* faulty variant: the attributes (lineno) iterated along with the fields
IterFieldsAndAttributes(n) ==
  [j \in 1..(Len(n.names) + (IF n.line # NoLine THEN 1 ELSE 0)) |->
     IF j <= Len(n.names) THEN <<n.names[j], n.kids[j]>>
     ELSE <<"lineno", Scalar("int", n.line)>>]
IterFields(n) == [j \in 1..Len(n.names) |-> <<n.names[j], n.kids[j]>>]
ZipLongest(a, b, fill) ==
  [j \in 1..Max(Len(a), Len(b)) |->
     <<IF j <= Len(a) THEN a[j] ELSE fill, IF j <= Len(b) THEN b[j] ELSE fill>>]

\* assert_equal failing: the AssertionError and its message arguments.
Raise(m, a, b) ==
  [m EXCEPT !.status = "AssertionError",
            !.report = [leftLine |-> Get(m.line_counter.left, 0), left |-> a,
                        rightLine |-> Get(m.line_counter.right, 0), right |-> b]]

\* return None from the innermost call
Pop(m) ==
  [m EXCEPT !.stack = SubSeq(m.stack, 1, Len(m.stack) - 1),
            !.status = IF Len(m.stack) = 1 THEN "ok" ELSE m.status]

SetTop(m, pc, i) ==
  [m EXCEPT !.stack[Len(m.stack)].pc = pc, !.stack[Len(m.stack)].i = i]

CanTypeMismatch(m) == AtEntry(m) /\ TypeOf(Top(m).l) # TypeOf(Top(m).r)
\* faulty variant: the line numbers taken from the two values before their types
\* are compared
DoTypeMismatchAfterUpdate(m) ==
  Raise([m EXCEPT !.line_counter =
           IF IsAST(Top(m).l)
             THEN [left |-> GetAttrLineno(Top(m).l, Get(m.line_counter.left, 1)),
                   right |-> GetAttrLineno(Top(m).r, Get(m.line_counter.right, 1))]
             ELSE m.line_counter],
        TypeOf(Top(m).l), TypeOf(Top(m).r))
DoTypeMismatch(m) == Raise(m, TypeOf(Top(m).l), TypeOf(Top(m).r))

CanEnterNode(m) ==
  AtEntry(m) /\ TypeOf(Top(m).l) = TypeOf(Top(m).r) /\ IsAST(Top(m).l)
DoEnterNode(m) ==
  [SetTop(m, "loop", 0) EXCEPT
     !.line_counter =
        [left |-> GetAttrLineno(Top(m).l, Get(m.line_counter.left, 1)),
         right |-> GetAttrLineno(Top(m).r, Get(m.line_counter.right, 1))]]

CanEnterList(m) ==
  /\ AtEntry(m) /\ TypeOf(Top(m).l) = TypeOf(Top(m).r)
  /\ ~IsAST(Top(m).l) /\ IsList(Top(m).l)
DoEnterList(m) == SetTop(m, "loop", 0)

CanCompareScalar(m) ==
  /\ AtEntry(m) /\ TypeOf(Top(m).l) = TypeOf(Top(m).r)
  /\ ~IsAST(Top(m).l) /\ ~IsList(Top(m).l)
\* faulty variant: the comparison of two scalars inverted
DoCompareScalarInverted(m) ==
  IF Top(m).l.v # Top(m).r.v THEN Pop(m) ELSE Raise(m, Top(m).l.v, Top(m).r.v)
DoCompareScalar(m) ==
  IF Top(m).l.v = Top(m).r.v THEN Pop(m) ELSE Raise(m, Top(m).l.v, Top(m).r.v)

FieldPairs(f) == ZipLongest(IterFields(f.l), IterFields(f.r), EmptyStr)
CanNextField(m) ==
  InLoop(m) /\ IsAST(Top(m).l) /\ Top(m).i < Len(FieldPairs(Top(m)))
DoNextField(m) ==
  LET j == Top(m).i + 1
      left_field == FieldPairs(Top(m))[j][1]
      right_field == FieldPairs(Top(m))[j][2]
      at == SetTop(m, "loop", j)
  IN  IF Len(left_field) # 2 \/ Len(right_field) # 2
        THEN [at EXCEPT !.status = "ValueError"]
      ELSE IF left_field[1] # right_field[1]
        THEN Raise(at, left_field[1], right_field[1])
      ELSE [at EXCEPT !.stack = Append(at.stack, Frame(left_field[2], right_field[2]))]

ElementPairs(f) == ZipLongest(f.l.kids, f.r.kids, FillStr)
CanNextElement(m) ==
  InLoop(m) /\ IsList(Top(m).l) /\ Top(m).i < Len(ElementPairs(Top(m)))
DoNextElement(m) ==
  LET j == Top(m).i + 1
      at == SetTop(m, "loop", j)
  IN  [at EXCEPT !.stack =
         Append(at.stack, Frame(ElementPairs(Top(m))[j][1], ElementPairs(Top(m))[j][2]))]

CanReturn(m) ==
  /\ InLoop(m)
  /\ Top(m).i = (IF IsAST(Top(m).l) THEN Len(FieldPairs(Top(m)))
                 ELSE Len(ElementPairs(Top(m))))
DoReturn(m) == Pop(m)

Step(m) ==
  CASE CanTypeMismatch(m) -> DoTypeMismatch(m)
    [] CanEnterNode(m) -> DoEnterNode(m)
    [] CanEnterList(m) -> DoEnterList(m)
    [] CanCompareScalar(m) -> DoCompareScalar(m)
    [] CanNextField(m) -> DoNextField(m)
    [] CanNextElement(m) -> DoNextElement(m)
    [] CanReturn(m) -> DoReturn(m)

RECURSIVE Run(_)
Run(m) == IF Running(m) THEN Run(Step(m)) ELSE m

\* compare_ast(l, r) with a fresh line_counter, run to its end
compare_ast(l, r) == Run(Start(l, r))

Becomes(m) ==
  /\ stack' = m.stack
  /\ line_counter' = m.line_counter
  /\ status' = m.status
  /\ report' = m.report
  /\ UNCHANGED <<left, right>>
  /\ UNCHANGED batchvars

TypeMismatch == CanTypeMismatch(M) /\ Becomes(DoTypeMismatch(M))
EnterNode == CanEnterNode(M) /\ Becomes(DoEnterNode(M))
EnterList == CanEnterList(M) /\ Becomes(DoEnterList(M))
CompareScalar == CanCompareScalar(M) /\ Becomes(DoCompareScalar(M))
NextField == CanNextField(M) /\ Becomes(DoNextField(M))
NextElement == CanNextElement(M) /\ Becomes(DoNextElement(M))
Return == CanReturn(M) /\ Becomes(DoReturn(M))

BatchIdle ==
  /\ worktree = FALSE /\ paths = <<>> /\ pos = 0
  /\ ok = 0 /\ fails = 0 /\ errors = 0 /\ uncaught = "" /\ exit = NoExit

Init ==
  /\ left \in Trees
  /\ right \in Trees
  /\ stack = Start(left, right).stack
  /\ line_counter = Start(left, right).line_counter
  /\ status = "running"
  /\ report = NoReport
  /\ BatchIdle

Next ==
  \/ TypeMismatch
  \/ EnterNode
  \/ EnterList
  \/ CompareScalar
  \/ NextField
  \/ NextElement
  \/ Return

Spec == Init /\ [][Next]_vars

\* ---------------------------------------------------------- astdiff command
\* What retrieving a path from one side gives: the text of a module that
\* parses to `tree`, a text that does not parse, or the exception raised by
\* `git show` / `git rev-parse` (CalledProcessError) or by open() (IOError).
Text(t) == [kind |-> "text", tree |-> t]
Fails(e) == [kind |-> e, tree |-> FillStr]
Module(body) == Node("B", NoLine, <<"f">>, <<List(body)>>)
ParsedTrees == {Module(<<>>), Module(<<Scalar("str", "a")>>)}
CommitContents ==
  {Text(t) : t \in ParsedTrees} \cup {Fails("SyntaxError"), Fails("CalledProcessError")}
WorktreeContents == CommitContents \cup {Fails("IOError")}
PathsOf(w) ==
  {[py |-> FALSE, old |-> Fails("CalledProcessError"), new |-> Fails("CalledProcessError")]}
    \cup {[py |-> TRUE, old |-> o, new |-> n] :
            o \in CommitContents,
            n \in (IF w THEN WorktreeContents ELSE CommitContents)}

\* get_object: the exception it raises, "" when it returns the content
get_object(content) ==
  IF content.kind \in {"CalledProcessError", "IOError"} THEN content.kind ELSE ""
\* ast.parse: the exception it raises, "" when it returns the tree
parse(content) == IF content.kind = "SyntaxError" THEN "SyntaxError" ELSE ""

\* The body of the try statement for one path: the exception that leaves it,
\* "" when it runs to its end.
TryBody(p) ==
  IF get_object(p.old) # "" THEN get_object(p.old)
  ELSE IF get_object(p.new) # "" THEN get_object(p.new)
  ELSE IF parse(p.old) # "" THEN parse(p.old)
  ELSE IF parse(p.new) # "" THEN parse(p.new)
  ELSE IF compare_ast(p.old.tree, p.new.tree).status = "ok" THEN ""
  ELSE compare_ast(p.old.tree, p.new.tree).status

InLoopBody == exit = NoExit /\ pos < Len(paths)
Path == paths[pos + 1]
Counted(o, f, e) ==
  /\ pos' = pos + 1
  /\ ok' = ok + o /\ fails' = fails + f /\ errors' = errors + e
  /\ UNCHANGED <<worktree, paths, uncaught, exit>>
  /\ UNCHANGED cmpvars

SkipPath == InLoopBody /\ ~Path.py /\ Counted(0, 0, 0)
CheckOk == InLoopBody /\ Path.py /\ TryBody(Path) = "" /\ Counted(1, 0, 0)
CheckFailed ==
  InLoopBody /\ Path.py /\ TryBody(Path) = "AssertionError" /\ Counted(0, 1, 0)
CheckParseError ==
  InLoopBody /\ Path.py /\ TryBody(Path) = "SyntaxError" /\ Counted(0, 0, 1)
CheckGitFailed ==
  InLoopBody /\ Path.py /\ TryBody(Path) = "CalledProcessError" /\ Counted(0, 0, 1)
\* no except clause matches: the exception leaves astdiff and the
\* interpreter exits with status 1
CheckUncaught ==
  /\ InLoopBody /\ Path.py
  /\ TryBody(Path) \notin {"", "AssertionError", "SyntaxError", "CalledProcessError"}
  /\ uncaught' = TryBody(Path)
  /\ exit' = 1
  /\ UNCHANGED <<worktree, paths, pos, ok, fails, errors>>
  /\ UNCHANGED cmpvars
Finish ==
  /\ exit = NoExit /\ pos = Len(paths)
  /\ exit' = IF fails = 0 /\ errors = 0 THEN 0 ELSE 1
  /\ UNCHANGED <<worktree, paths, pos, ok, fails, errors, uncaught>>
  /\ UNCHANGED cmpvars

InitBatch ==
  /\ worktree \in BOOLEAN
  /\ paths \in UNION {[1..n -> PathsOf(worktree)] : n \in 0..MaxPaths}
  /\ pos = 0 /\ ok = 0 /\ fails = 0 /\ errors = 0
  /\ uncaught = "" /\ exit = NoExit
  /\ left = FillStr /\ right = FillStr /\ stack = <<>>
  /\ line_counter = [left |-> Unset, right |-> Unset]
  /\ status = "ok" /\ report = NoReport

NextBatch ==
  \/ SkipPath
  \/ CheckOk
  \/ CheckFailed
  \/ CheckParseError
  \/ CheckGitFailed
  \/ CheckUncaught
  \/ Finish

SpecBatch == InitBatch /\ [][NextBatch]_vars

\* ------------------------------------------------------------ vocabulary
Done == status # "running"
Failed == status = "AssertionError"

\* The tree with every line number erased.
RECURSIVE Strip(_)
Strip(t) ==
  [t EXCEPT !.line = NoLine,
            !.kids = [j \in 1..Len(t.kids) |-> Strip(t.kids[j])]]

\* The raising call: which check failed, and where in the two trees.
FailedAtEntry == Failed /\ Top(M).pc = "entry"
TypeFailure == FailedAtEntry /\ Top(M).l.tag # Top(M).r.tag
ValueFailure == FailedAtEntry /\ Top(M).l.tag = Top(M).r.tag
FailKind ==
  IF Top(M).pc = "loop" THEN "name" ELSE IF TypeFailure THEN "type" ELSE "value"
FailPath ==
  [d \in 1..(Len(stack) - (IF Top(M).pc = "entry" THEN 1 ELSE 0)) |-> stack[d].i]

\* The Nodes that enclose the raising call and carry a line number, per side
\* ("l" or "r"), as depths of the call stack; and the line of the nearest.
Enclosing(side) ==
  {d \in 1..(Len(stack) - 1) : IsAST(stack[d][side]) /\ stack[d][side].line # NoLine}
Nearest(side) ==
  stack[CHOOSE d \in Enclosing(side) : \A e \in Enclosing(side) : e <= d][side].line

\* C1: two Lists of different lengths never compare equal.
C1_LengthMismatch ==
  (Done /\ IsList(left) /\ IsList(right) /\ Len(left.kids) # Len(right.kids))
    => status # "ok"

\* C2: on a scalar mismatch the state and the message hold, on each side, the
\* line of the nearest enclosing Node that carries a line number.
C2_LineTracking ==
  ValueFailure =>
    /\ Enclosing("l") # {} =>
         line_counter.left = Nearest("l") /\ report.leftLine = Nearest("l")
    /\ Enclosing("r") # {} =>
         line_counter.right = Nearest("r") /\ report.rightLine = Nearest("r")

\* C3: a tree compared with itself, from a fresh state, compares equal.
C3_Reflexive == (Done /\ left = right) => status = "ok"
C3_Witness ==
  /\ status = "ok" /\ left = right /\ IsAST(left)
  /\ Len(left.kids) > 0 /\ Len(left.kids[1].kids) > 0

\* C4: the outcome is the outcome on the two trees with their line numbers
\* erased, and two trees that differ in line numbers only compare equal.
C4_FormattingInsensitive ==
  Done =>
    /\ status = compare_ast(Strip(left), Strip(right)).status
    /\ Strip(left) = Strip(right) => status = "ok"
C4_Witness ==
  /\ status = "ok" /\ left # right /\ Strip(left) = Strip(right)
  /\ left.line # NoLine /\ right.line = NoLine
  /\ Len(left.kids) > 0 /\ left.kids[1].line # right.kids[1].line

\* C5: a List and a reordering of it whose elements differ at some index
\* never compare equal.
C5_OrderSensitive ==
  (/\ Done /\ IsList(left) /\ IsList(right)
   /\ Len(left.kids) = Len(right.kids)
   /\ \E p \in Permutations(1..Len(left.kids)) :
        \A j \in 1..Len(left.kids) : right.kids[j] = left.kids[p[j]]
   /\ \E j \in 1..Len(left.kids) : Strip(left.kids[j]) # Strip(right.kids[j]))
    => status # "ok"

\* C6: a call on two values of different type raises at once, with the line
\* numbers the state had on entry; the state and the stack stay as they were.
C6_TypeTagCheck ==
  [][(AtEntry(M) /\ Top(M).l.tag # Top(M).r.tag) =>
       /\ status' = "AssertionError"
       /\ line_counter' = line_counter
       /\ stack' = stack
       /\ report' = [leftLine |-> Get(line_counter.left, 0), left |-> Top(M).l.tag,
                     rightLine |-> Get(line_counter.right, 0), right |-> Top(M).r.tag]
    ]_vars
C6_Witness ==
  /\ TypeFailure /\ Len(stack) > 1
  /\ IsAST(Top(M).l) /\ Top(M).l.line # NoLine
  /\ line_counter.left # Unset /\ line_counter.left # Top(M).l.line
  /\ report.leftLine = line_counter.left

\* C7: two Nodes of one type with different numbers of fields end in a
\* structural mismatch, as any other divergence does.
C7_FieldCountMismatch ==
  (/\ Done /\ IsAST(left) /\ IsAST(right) /\ left.tag = right.tag
   /\ Len(left.names) # Len(right.names))
    => status = "AssertionError"

\* C8: a line slot changes only on entering a pair of Nodes, and only to the
\* line number that side's Node carries.
C8_StateFrame ==
  [][/\ line_counter'.left # line_counter.left =>
          /\ CanEnterNode(M) /\ Top(M).l.line # NoLine
          /\ line_counter'.left = Top(M).l.line
     /\ line_counter'.right # line_counter.right =>
          /\ CanEnterNode(M) /\ Top(M).r.line # NoLine
          /\ line_counter'.right = Top(M).r.line
    ]_vars

\* C8 (amended): a line slot changes only on entering a pair of Nodes: to the
\* line number that side's Node carries, or, when that Node carries none and
\* the slot is unset, to 1.
C8_StateFrameAmended ==
  [][/\ line_counter'.left # line_counter.left =>
          /\ CanEnterNode(M)
          /\ IF Top(M).l.line # NoLine
               THEN line_counter'.left = Top(M).l.line
               ELSE line_counter.left = Unset /\ line_counter'.left = 1
     /\ line_counter'.right # line_counter.right =>
          /\ CanEnterNode(M)
          /\ IF Top(M).r.line # NoLine
               THEN line_counter'.right = Top(M).r.line
               ELSE line_counter.right = Unset /\ line_counter'.right = 1
    ]_vars
C8_Witness ==
  /\ status = "running" /\ Len(stack) = 2 /\ Top(M).pc = "loop"
  /\ IsAST(Top(M).l) /\ Top(M).l.line = NoLine /\ Top(M).r.line = NoLine
  /\ left.line = NoLine /\ line_counter.left = 1
  /\ right.line # NoLine /\ line_counter.right = right.line

\* The first divergence of two trees in depth-first, left-to-right lock-step
\* order: the type tags, then per field its name and then its value, per
\* list position its element; the placeholder stands for what is missing.
NoDiv == [found |-> FALSE, path |-> <<>>, kind |-> "none"]
NameAt(n, j) == IF j <= Len(n.names) THEN n.names[j] ELSE ""
KidAt(n, j) == IF j <= Len(n.kids) THEN n.kids[j] ELSE Scalar("str", "")
RECURSIVE FirstDiv(_, _), FirstDivFrom(_, _, _)
FirstDiv(l, r) ==
  IF l.tag # r.tag THEN [found |-> TRUE, path |-> <<>>, kind |-> "type"]
  ELSE IF l.k = "Scalar"
    THEN (IF l.v # r.v THEN [found |-> TRUE, path |-> <<>>, kind |-> "value"]
          ELSE NoDiv)
  ELSE FirstDivFrom(l, r, 1)
FirstDivFrom(l, r, j) ==
  IF j > Max(Len(l.kids), Len(r.kids)) THEN NoDiv
  ELSE IF l.k = "Node" /\ NameAt(l, j) # NameAt(r, j)
    THEN [found |-> TRUE, path |-> <<j>>, kind |-> "name"]
  ELSE LET d == FirstDiv(KidAt(l, j), KidAt(r, j))
       IN  IF d.found THEN [d EXCEPT !.path = <<j>> \o d.path]
           ELSE FirstDivFrom(l, r, j + 1)

\* C9: a comparison of two trees that diverge ends in one mismatch, raised
\* by the check at the first divergence, and nothing moves afterwards; two
\* trees that do not diverge compare equal.
C9_FailFast ==
  Done =>
    IF FirstDiv(left, right).found
      THEN /\ status = "AssertionError"
           /\ FailPath = FirstDiv(left, right).path
           /\ FailKind = FirstDiv(left, right).kind
      ELSE status = "ok"
\* C10: when the command ends, every path has been consumed, every .py path
\* is counted in exactly one of ok / fails / errors, and the exit status is 0
\* exactly when fails and errors are both 0.
C10_BatchAggregation ==
  exit # NoExit =>
    /\ pos = Len(paths)
    /\ ok + fails + errors = Cardinality({j \in 1..Len(paths) : paths[j].py})
    /\ exit = 0 <=> (fails = 0 /\ errors = 0)
====
